---- MODULE Spec2Model ----
(***************************************************************************)
(* PromptVault Python SDK (python-sdk/promptvault/__init__.py).            *)
(*                                                                         *)
(* The module-level configuration dictionary, configure, get_prompt and    *)
(* the two attribute-interception classes are modelled as a state machine. *)
(* Python strings are sequences of one-character strings; values that may  *)
(* be None are tagged records, so that truthiness is computed as Python    *)
(* computes it.  requests.get is the environment: it either returns a      *)
(* response or raises a RequestException.                                  *)
(***************************************************************************)
EXTENDS Integers, Sequences, FiniteSets, TLC

VARIABLES
    config,         \* _config: the two module-level configuration fields
    proxy,          \* the PromptProxy most recently returned by the module
    call,           \* the call that completed last: arguments, requests, outcome
    lastConfigure,  \* history: the arguments of the most recent configure call
    proxyAttr,      \* history: the attribute name the current proxy was made from
    nFetch,         \* history: fetches made with both fields set and non-empty
    nGet,           \* history: requests.get calls made so far
    pc,             \* threads: each thread's position in its call
    local,          \* threads: each thread's arguments and local variables
    wire,           \* threads: the (url, x-api-key) pairs passed to requests.get
    started         \* threads: the argument pairs of the configure calls begun

vars == <<config, proxy, call, lastConfigure, proxyAttr, nFetch, nGet,
          pc, local, wire, started>>

seqVars == <<config, proxy, call, lastConfigure, proxyAttr, nFetch, nGet>>
thrVars == <<pc, local, wire, started>>

----------------------------------------------------------------------------
(* Bounds                                                                  *)

MaxSlashes == 2      \* trailing slashes appended to a base_url argument
MaxUnderscores == 2  \* consecutive underscores in an attribute name
MaxCalls == 2        \* fetches made with a usable configuration in one behaviour

----------------------------------------------------------------------------
(* Python values                                                           *)

PyNone == [t |-> "None"]
PyStr(s) == [t |-> "str", s |-> s]
PyInt(n) == [t |-> "int", n |-> n]

\* bool(v) for None, str and int
Truthy(v) ==
    CASE v.t = "None" -> FALSE
      [] v.t = "str"  -> v.s # <<>>
      [] v.t = "int"  -> v.n # 0

Repeat(c, n) == [i \in 1..n |-> c]

\* faulty variant: the base URL is stored as passed
RstripNothing(s) == s
\* str.rstrip('/'): every trailing slash is removed
RECURSIVE Rstrip(_)
Rstrip(s) ==
    IF s # <<>> /\ s[Len(s)] = "/" THEN Rstrip(SubSeq(s, 1, Len(s) - 1)) ELSE s

\* faulty variant: only the first underscore is replaced
RECURSIVE KebabFirst(_)
KebabFirst(name) ==
    IF name = <<>> THEN <<>>
    ELSE IF Head(name) = "_" THEN <<"-">> \o Tail(name)
    ELSE <<Head(name)>> \o KebabFirst(Tail(name))
\* str.replace('_', '-'): every underscore becomes a hyphen
Kebab(name) == [i \in 1..Len(name) |-> IF name[i] = "_" THEN "-" ELSE name[i]]

ApiPath == <<"/", "a", "p", "i", "/", "p", "r", "o", "m", "p", "t", "s", "/">>
Timeout == 10

----------------------------------------------------------------------------
(* Inputs                                                                  *)

Hosts == {<<>>, <<"h">>}
BaseUrls == {h \o Repeat("/", n) : h \in Hosts, n \in 0..MaxSlashes}
ApiKeys == {<<>>, <<"k">>, <<"j">>}
Slugs == {<<"p">>, <<"q">>}
ProjectSlugs == {<<"p">>, <<"n">>}
Versions == {PyNone, PyInt(0), PyInt(2)}
\* attribute names such as research_manager, with up to MaxUnderscores underscores
AttrNames == {<<"a">> \o Repeat("_", i) \o <<"b">> : i \in 0..MaxUnderscores}

BodyX == "{\"content\": \"X\"}"
BodyEmpty == "{}"
BodyHtml == "<html>"
Bodies == {BodyX, BodyEmpty, BodyHtml}
Statuses == {200, 401, 403, 404, 500}

\* What requests.get can do: return a response, or raise a RequestException
NetOutcomes ==
    {[kind |-> "response", status_code |-> s, text |-> b] : s \in Statuses, b \in Bodies}
    \cup {[kind |-> "raise", exc |-> e] : e \in {"ConnectionError", "Timeout"}}

----------------------------------------------------------------------------
(* Outcomes of a call                                                      *)

Return(v) == [kind |-> "return", value |-> v]
Raise(exc, msg) == [kind |-> "raise", exc |-> exc, msg |-> msg]

\* the pieces of a formatted message
LitPart(s) == [lit |-> s]
StrPart(s) == [str |-> s]
IntPart(n) == [int |-> n]
TextPart(b) == [text |-> b]
CausePart(e) == [cause |-> e]

\* the exception classes that derive from requests.exceptions.RequestException
IsRequestException(exc) ==
    exc \in {"ConnectionError", "Timeout", "requests.exceptions.JSONDecodeError"}

\* response.json().  requests>=2.25.0 is required (setup.py): from 2.27 on a
\* body that is not JSON raises requests.exceptions.JSONDecodeError, before
\* that json.JSONDecodeError (a ValueError); either build may be installed.
Json(text) ==
    CASE text = BodyX     -> {Return([keys |-> {"content"}, content |-> "X"])}
      [] text = BodyEmpty -> {Return([keys |-> {}])}
      [] OTHER            -> {Raise("requests.exceptions.JSONDecodeError", <<TextPart(text)>>),
                              Raise("json.JSONDecodeError", <<TextPart(text)>>)}

\* response.json()['content']
Content(j) ==
    IF j.kind = "raise" THEN j
    ELSE IF "content" \in j.value.keys THEN Return(j.value.content)
    ELSE Raise("KeyError", <<LitPart("content")>>)

----------------------------------------------------------------------------
(* get_prompt                                                              *)

NotConfiguredMsg ==
    <<LitPart("PromptVault not configured. Call promptvault.configure() first.")>>

\* the configuration check that opens get_prompt
NotConfigured(cfg) == ~Truthy(cfg.base_url) \/ ~Truthy(cfg.api_key)

\* faulty variant: the version is sent whenever it is not None
ParamsIfNotNone(project_slug, version) ==
    IF version.t # "None"
    THEN [projectSlug |-> PyStr(project_slug), version |-> version]
    ELSE [projectSlug |-> PyStr(project_slug)]
\* the query parameters
Params(project_slug, version) ==
    IF Truthy(version)
    THEN [projectSlug |-> PyStr(project_slug), version |-> version]
    ELSE [projectSlug |-> PyStr(project_slug)]

\* f"{_config['base_url']}/api/prompts/{slug}"
Url(base_url, slug) == base_url.s \o ApiPath \o slug

\* faulty variant: the header is filled from the other configuration field
HeadersFromBaseUrl(cfg) == "x-api-key" :> cfg.base_url.s
\* {'x-api-key': _config['api_key']}
Headers(cfg) == "x-api-key" :> cfg.api_key.s

\* the arguments of requests.get
Request(cfg, slug, project_slug, version) ==
    [method  |-> "GET",
     url     |-> Url(cfg.base_url, slug),
     headers |-> Headers(cfg),
     params  |-> Params(project_slug, version),
     timeout |-> Timeout]

\* faulty variant: the two names are interpolated in the wrong order
NotFoundMsgSwapped(slug, project_slug) ==
    <<LitPart("Prompt '"), StrPart(project_slug), LitPart("' not found in project '"),
      StrPart(slug), LitPart("'")>>
\* f"Prompt '{slug}' not found in project '{project_slug}'"
NotFoundMsg(slug, project_slug) ==
    <<LitPart("Prompt '"), StrPart(slug), LitPart("' not found in project '"),
      StrPart(project_slug), LitPart("'")>>

\* f"API error: {response.status_code} - {response.text}"
ApiErrorMsg(status_code, text) ==
    <<LitPart("API error: "), IntPart(status_code), LitPart(" - "), TextPart(text)>>

\* faulty variant: every status but 200 is reported as an API error
OnStatusOnly200(net, slug, project_slug) ==
    IF net.status_code = 200
    THEN {Content(j) : j \in Json(net.text)}
    ELSE {Raise("Exception", ApiErrorMsg(net.status_code, net.text))}

\* the branch on response.status_code
OnStatus(net, slug, project_slug) ==
    CASE net.status_code = 200 -> {Content(j) : j \in Json(net.text)}
      [] net.status_code = 401 -> {Raise("ValueError", <<LitPart("Invalid API key")>>)}
      [] net.status_code = 404 -> {Raise("ValueError", NotFoundMsg(slug, project_slug))}
      [] net.status_code = 403 ->
           {Raise("ValueError", <<LitPart("Access denied to this project")>>)}
      [] OTHER -> {Raise("Exception", ApiErrorMsg(net.status_code, net.text))}

\* the body of the try statement: requests.get, then the branch
TryBody(net, slug, project_slug) ==
    IF net.kind = "raise"
    THEN {Raise(net.exc, <<>>)}
    ELSE OnStatus(net, slug, project_slug)

\* except requests.exceptions.RequestException as e
Except(o) ==
    IF o.kind = "raise" /\ IsRequestException(o.exc)
    THEN Raise("Exception", <<LitPart("Network error: "), CausePart(o.exc)>>)
    ELSE o

\* faulty variant: the request is made before the configuration is checked
GetPromptChecksLate(cfg, slug, project_slug, version, net) ==
    IF NotConfigured(cfg)
    THEN {[sent    |-> <<[method |-> "GET", params |-> Params(project_slug, version),
                          timeout |-> Timeout]>>,
           outcome |-> Raise("ValueError", NotConfiguredMsg)]}
    ELSE {[sent    |-> <<Request(cfg, slug, project_slug, version)>>,
           outcome |-> Except(o)] : o \in TryBody(net, slug, project_slug)}

\* faulty variant: a request that failed in transport is made a second time
GetPromptRetries(cfg, slug, project_slug, version, net) ==
    IF NotConfigured(cfg)
    THEN {[sent |-> <<>>, outcome |-> Raise("ValueError", NotConfiguredMsg)]}
    ELSE {[sent    |-> IF net.kind = "raise"
                       THEN <<Request(cfg, slug, project_slug, version),
                              Request(cfg, slug, project_slug, version)>>
                       ELSE <<Request(cfg, slug, project_slug, version)>>,
           outcome |-> Except(o)] : o \in TryBody(net, slug, project_slug)}

\* The runs of get_prompt against a configuration and a behaviour of the
\* network: the requests sent, and the outcome the caller sees.
GetPrompt(cfg, slug, project_slug, version, net) ==
    IF NotConfigured(cfg)
    THEN {[sent |-> <<>>, outcome |-> Raise("ValueError", NotConfiguredMsg)]}
    ELSE {[sent    |-> <<Request(cfg, slug, project_slug, version)>>,
           outcome |-> Except(o)] : o \in TryBody(net, slug, project_slug)}

----------------------------------------------------------------------------
(* Operations, one call at a time                                          *)

Init ==
    /\ config = [base_url |-> PyNone, api_key |-> PyNone]
    /\ proxy = PyNone
    /\ call = [op |-> "import"]
    /\ lastConfigure = PyNone
    /\ proxyAttr = <<>>
    /\ nFetch = 0
    /\ nGet = 0
    /\ pc = <<>>
    /\ local = <<>>
    /\ wire = {}
    /\ started = {}

\* promptvault.configure(base_url, api_key)
Configure(base_url, api_key) ==
    /\ config' = [base_url |-> PyStr(Rstrip(base_url)), api_key |-> PyStr(api_key)]
    /\ call' = [op |-> "configure", base_url |-> base_url, api_key |-> api_key,
                before |-> config, prev |-> lastConfigure,
                sent |-> <<>>, outcome |-> Return(PyNone)]
    /\ lastConfigure' = [t |-> "args", base_url |-> base_url, api_key |-> api_key]
    /\ UNCHANGED <<proxy, proxyAttr, nFetch, nGet>>
    /\ UNCHANGED thrVars

\* the history counters after a fetch that made the given requests
Count(sent) ==
    /\ nFetch' = nFetch + (IF Truthy(config.base_url) /\ Truthy(config.api_key) THEN 1 ELSE 0)
    /\ nGet' = nGet + Len(sent)

\* promptvault.get_prompt(slug, project_slug, version)
GetPromptCall(slug, project_slug, version, net) ==
    /\ nFetch < MaxCalls
    /\ \E r \in GetPrompt(config, slug, project_slug, version, net) :
          /\ call' = [op |-> "get_prompt", slug |-> slug, project_slug |-> project_slug,
                      version |-> version, net |-> net, before |-> config,
                      sent |-> r.sent, outcome |-> r.outcome]
          /\ Count(r.sent)
    /\ UNCHANGED <<config, proxy, proxyAttr, lastConfigure>>
    /\ UNCHANGED thrVars

\* promptvault.<name>: PromptVaultModule.__getattr__
ModuleGetattr(name) ==
    /\ proxy' = [t |-> "PromptProxy", project_slug |-> Kebab(name)]
    /\ proxyAttr' = name
    /\ call' = [op |-> "module_getattr", name |-> name, before |-> config,
                sent |-> <<>>, outcome |-> Return(proxy')]
    /\ UNCHANGED <<config, lastConfigure, nFetch, nGet>>
    /\ UNCHANGED thrVars

\* <proxy>.<name>: PromptProxy.__getattr__
ProxyGetattr(name, net) ==
    /\ proxy.t = "PromptProxy"
    /\ nFetch < MaxCalls
    /\ \E r \in GetPrompt(config, Kebab(name), proxy.project_slug, PyNone, net) :
          /\ call' = [op |-> "proxy_getattr", name |-> name, attr |-> proxyAttr,
                      net |-> net, before |-> config,
                      sent |-> r.sent, outcome |-> r.outcome]
          /\ Count(r.sent)
    /\ UNCHANGED <<config, proxy, proxyAttr, lastConfigure>>
    /\ UNCHANGED thrVars

DoConfigure == \E b \in BaseUrls, k \in ApiKeys : Configure(b, k)
DoGetPrompt ==
    \E s \in Slugs, p \in ProjectSlugs, v \in Versions, net \in NetOutcomes :
        GetPromptCall(s, p, v, net)
DoModuleGetattr == \E n \in AttrNames : ModuleGetattr(n)
DoProxyGetattr == \E n \in AttrNames, net \in NetOutcomes : ProxyGetattr(n, net)

Next == DoConfigure \/ DoGetPrompt \/ DoModuleGetattr \/ DoProxyGetattr

Spec == Init /\ [][Next]_vars

----------------------------------------------------------------------------
(* The same calls made from several threads.  Each subscript of _config is *)
(* one step: configure writes base_url, then api_key; get_prompt reads     *)
(* base_url and api_key for the check, then base_url again for the URL and *)
(* api_key again for the header.                                           *)

ConfThreads == {"c1", "c2"}
FetchThreads == {"f1"}
Threads == ConfThreads \cup FetchThreads

NoLocals == [base_url |-> <<>>, api_key |-> <<>>, slug |-> <<>>,
             url |-> <<>>, headers |-> <<>>]

InitThreads ==
    /\ config = [base_url |-> PyNone, api_key |-> PyNone]
    /\ proxy = PyNone
    /\ call = [op |-> "import"]
    /\ lastConfigure = PyNone
    /\ proxyAttr = <<>>
    /\ nFetch = 0
    /\ nGet = 0
    /\ pc = [t \in Threads |-> "idle"]
    /\ local = [t \in Threads |-> NoLocals]
    /\ wire = {}
    /\ started = {}

Goto(t, label) == pc' = [pc EXCEPT ![t] = label]
SeqUnchanged == UNCHANGED <<proxy, call, lastConfigure, proxyAttr, nFetch, nGet>>

\* a thread enters configure(base_url, api_key)
ConfigureEnter(t, base_url, api_key) ==
    /\ pc[t] = "idle"
    /\ Goto(t, "line41")
    /\ local' = [local EXCEPT ![t].base_url = base_url, ![t].api_key = api_key]
    /\ started' = started \cup {[base_url |-> base_url, api_key |-> api_key]}
    /\ UNCHANGED <<config, wire>>
    /\ SeqUnchanged

\* _config['base_url'] = base_url.rstrip('/')
ConfigureWriteBaseUrl(t) ==
    /\ pc[t] = "line41"
    /\ config' = [config EXCEPT !.base_url = PyStr(Rstrip(local[t].base_url))]
    /\ Goto(t, "line42")
    /\ UNCHANGED <<local, wire, started>>
    /\ SeqUnchanged

\* _config['api_key'] = api_key
ConfigureWriteApiKey(t) ==
    /\ pc[t] = "line42"
    /\ config' = [config EXCEPT !.api_key = PyStr(local[t].api_key)]
    /\ Goto(t, "done")
    /\ UNCHANGED <<local, wire, started>>
    /\ SeqUnchanged

\* a thread enters get_prompt(slug, project_slug)
GetPromptEnter(t, slug) ==
    /\ pc[t] = "idle"
    /\ Goto(t, "line57")
    /\ local' = [local EXCEPT ![t].slug = slug]
    /\ UNCHANGED <<config, wire, started>>
    /\ SeqUnchanged

\* if not _config['base_url'] ...: raise
GetPromptCheckBaseUrl(t) ==
    /\ pc[t] = "line57"
    /\ Goto(t, IF Truthy(config.base_url) THEN "line57or" ELSE "raised")
    /\ UNCHANGED <<config, local, wire, started>>
    /\ SeqUnchanged

\* ... or not _config['api_key']: raise
GetPromptCheckApiKey(t) ==
    /\ pc[t] = "line57or"
    /\ Goto(t, IF Truthy(config.api_key) THEN "line60" ELSE "raised")
    /\ UNCHANGED <<config, local, wire, started>>
    /\ SeqUnchanged

\* url = f"{_config['base_url']}/api/prompts/{slug}"
GetPromptReadBaseUrl(t) ==
    /\ pc[t] = "line60"
    /\ local' = [local EXCEPT ![t].url = Url(config.base_url, local[t].slug)]
    /\ Goto(t, "line61")
    /\ UNCHANGED <<config, wire, started>>
    /\ SeqUnchanged

\* headers = {'x-api-key': _config['api_key']}
GetPromptReadApiKey(t) ==
    /\ pc[t] = "line61"
    /\ local' = [local EXCEPT ![t].headers = Headers(config)]
    /\ Goto(t, "line68")
    /\ UNCHANGED <<config, wire, started>>
    /\ SeqUnchanged

\* requests.get(url, headers=headers, ...)
GetPromptSend(t) ==
    /\ pc[t] = "line68"
    /\ wire' = wire \cup {[url |-> local[t].url, headers |-> local[t].headers,
                           slug |-> local[t].slug]}
    /\ Goto(t, "done")
    /\ UNCHANGED <<config, local, started>>
    /\ SeqUnchanged

ThreadConfigure ==
    \E t \in ConfThreads :
        \/ \E b \in BaseUrls, k \in ApiKeys : ConfigureEnter(t, b, k)
        \/ ConfigureWriteBaseUrl(t)
        \/ ConfigureWriteApiKey(t)

ThreadGetPrompt ==
    \E t \in FetchThreads :
        \/ \E s \in Slugs : GetPromptEnter(t, s)
        \/ GetPromptCheckBaseUrl(t)
        \/ GetPromptCheckApiKey(t)
        \/ GetPromptReadBaseUrl(t)
        \/ GetPromptReadApiKey(t)
        \/ GetPromptSend(t)

NextThreads == ThreadConfigure \/ ThreadGetPrompt

SpecThreads == InitThreads /\ [][NextThreads]_vars

----------------------------------------------------------------------------
(* Vocabulary of the properties                                            *)

IsFetch == call.op \in {"get_prompt", "proxy_getattr"}
SentGet == IsFetch /\ call.sent # <<>>
GotResponse == SentGet /\ call.net.kind = "response"

\* the failure kinds, told apart as a caller tells them apart
Failed(o, exc, first) ==
    o.kind = "raise" /\ o.exc = exc /\ o.msg # <<>> /\ o.msg[1] = LitPart(first)
IsNotConfigured(o) ==
    Failed(o, "ValueError", "PromptVault not configured. Call promptvault.configure() first.")
IsInvalidCredentials(o) == Failed(o, "ValueError", "Invalid API key")
IsNotFound(o) == Failed(o, "ValueError", "Prompt '")
IsAccessDenied(o) == Failed(o, "ValueError", "Access denied to this project")
IsApiError(o) == Failed(o, "Exception", "API error: ")
IsNetworkError(o) == Failed(o, "Exception", "Network error: ")

\* the message holds the piece x / holds x and then y
Carries(msg, x) == \E i \in 1..Len(msg) : msg[i] = x
CarriesInOrder(msg, x, y) ==
    \E i \in 1..Len(msg), j \in 1..Len(msg) : i < j /\ msg[i] = x /\ msg[j] = y
CarriesNoArgument(msg) == \A i \in 1..Len(msg) : DOMAIN msg[i] = {"lit"}

\* s with every underscore replaced by a hyphen, one character at a time
RECURSIVE Hyphenated(_)
Hyphenated(s) ==
    IF s = <<>> THEN <<>>
    ELSE (IF Head(s) = "_" THEN <<"-">> ELSE <<Head(s)>>) \o Hyphenated(Tail(s))

\* st is arg without its trailing slashes
StrippedOf(st, arg) ==
    /\ \E n \in 0..Len(arg) : arg = st \o Repeat("/", n)
    /\ st = <<>> \/ st[Len(st)] # "/"

Prefixes(s) == {SubSeq(s, 1, n) : n \in 0..Len(s)}

\* the slug a fetch asks for
FetchSlug == IF call.op = "get_prompt" THEN call.slug ELSE Hyphenated(call.name)

----------------------------------------------------------------------------
(* C1: a fetch made when configure has never been called fails with the   *)
(* "not configured" error, whatever its arguments, and sends no request.   *)
C1_NotConfiguredBeforeConfigure ==
    (IsFetch /\ lastConfigure = PyNone) =>
        /\ IsNotConfigured(call.outcome)
        /\ call.sent = <<>>
        /\ nGet = 0

C1_Witness ==
    /\ call.op = "get_prompt"
    /\ lastConfigure = PyNone
    /\ call.version = PyInt(2)
    /\ call.net.kind = "response"
    /\ IsNotConfigured(call.outcome)

(* C2: when a response came back, the status code alone decides the        *)
(* outcome: 200 with {"content": X} returns X untouched, 401 is invalid    *)
(* credentials, 404 not found, 403 access denied, anything else an API     *)
(* error.                                                                  *)
C2_StatusTable ==
    (GotResponse /\ call.op = "get_prompt") =>
        LET st == call.net.status_code
            o  == call.outcome
        IN  /\ (st = 200 /\ call.net.text = BodyX) => o = Return("X")
            /\ st = 401 => IsInvalidCredentials(o)
            /\ st = 404 => IsNotFound(o)
            /\ st = 403 => IsAccessDenied(o)
            /\ st \notin {200, 401, 403, 404} => IsApiError(o)

C2_Witness ==
    /\ GotResponse /\ call.op = "get_prompt"
    /\ call.net.status_code = 403
    /\ IsAccessDenied(call.outcome)

C4_DottedAccess ==
    /\ call.op = "module_getattr" =>
           /\ call.sent = <<>>
           /\ call.outcome.kind = "return"
           /\ call.outcome.value.t = "PromptProxy"
    /\ call.op = "proxy_getattr" =>
           /\ \E r \in GetPrompt(call.before, Hyphenated(call.name),
                                 Hyphenated(call.attr), PyNone, call.net) :
                  r.sent = call.sent /\ r.outcome = call.outcome
           /\ call.sent # <<>> =>
                  /\ call.sent[1].url =
                         call.before.base_url.s \o ApiPath \o Hyphenated(call.name)
                  /\ call.sent[1].params = [projectSlug |-> PyStr(Hyphenated(call.attr))]
           /\ call.outcome.kind = "return" => call.outcome.value = "X"

C4_Witness ==
    /\ call.op = "proxy_getattr"
    /\ call.name = <<"a", "_", "_", "b">>
    /\ call.attr = <<"a", "_", "b">>
    /\ call.sent # <<>>
    /\ call.outcome = Return("X")

(* C5: a fetch made while both configuration fields are set and non-empty  *)
(* sends exactly one request, whatever its outcome: after N such fetches    *)
(* exactly N requests have been sent.                                       *)
C5_OneGetPerFetch ==
    /\ nGet = nFetch
    /\ (IsFetch /\ Truthy(call.before.base_url) /\ Truthy(call.before.api_key)) =>
           Len(call.sent) = 1

C5_Witness ==
    /\ IsFetch
    /\ nFetch = 2 /\ nGet = 2
    /\ IsNetworkError(call.outcome)
    /\ Len(call.sent) = 1

(* C6: the request carries projectSlug equal to the namespace, and a        *)
(* version parameter exactly when a version was passed that is neither None *)
(* nor 0; when present it is the version passed.                            *)
C6_QueryParams ==
    (SentGet /\ call.op = "get_prompt") =>
        LET p == call.sent[1].params
        IN  /\ DOMAIN p \subseteq {"projectSlug", "version"}
            /\ p.projectSlug = PyStr(call.project_slug)
            /\ "version" \in DOMAIN p <=> (call.version # PyNone /\ call.version # PyInt(0))
            /\ "version" \in DOMAIN p => p.version = call.version

C6_Witness ==
    /\ SentGet /\ call.op = "get_prompt"
    /\ call.version = PyInt(2)
    /\ call.sent[1].params = [projectSlug |-> PyStr(call.project_slug), version |-> PyInt(2)]

(* C7: the stored configuration is always that of the most recent configure *)
(* call, base_url without its trailing slashes; a request goes to that      *)
(* base_url followed by /api/prompts/{slug} with that api_key as x-api-key; *)
(* a fetch leaves the configuration as it found it, and so does a configure *)
(* call that repeats the previous one.                                      *)
C7_LastConfigureWins ==
    /\ lastConfigure = PyNone => config = [base_url |-> PyNone, api_key |-> PyNone]
    /\ lastConfigure # PyNone =>
           /\ config.base_url.t = "str"
           /\ StrippedOf(config.base_url.s, lastConfigure.base_url)
           /\ config.api_key = PyStr(lastConfigure.api_key)
    /\ IsFetch => config = call.before
    /\ SentGet =>
           /\ lastConfigure # PyNone
           /\ \E b \in Prefixes(lastConfigure.base_url) :
                  /\ StrippedOf(b, lastConfigure.base_url)
                  /\ call.sent[1].url = b \o ApiPath \o FetchSlug
           /\ call.sent[1].headers = ("x-api-key" :> lastConfigure.api_key)
    /\ (call.op = "configure" /\ call.prev # PyNone
            /\ call.prev.base_url = call.base_url /\ call.prev.api_key = call.api_key) =>
           config = call.before

C7_Witness ==
    /\ SentGet
    /\ lastConfigure # PyNone
    /\ lastConfigure.base_url = <<"h", "/">>
    /\ lastConfigure.api_key = <<"j">>
    /\ call.sent[1].url = <<"h">> \o ApiPath \o FetchSlug

(* C8 as stated: a fetch that sent its request fails with the network      *)
(* error exactly when the request failed in transport; once a response      *)
(* came back the outcome is never the network error.                        *)
C8_NetworkErrorIffTransport ==
    SentGet => (IsNetworkError(call.outcome) <=> call.net.kind = "raise")

(* C9 as stated: once configure has been called, with any strings, no       *)
(* fetch fails with the "not configured" error and each sends its request.  *)
C9_ConfiguredAfterConfigure ==
    (IsFetch /\ lastConfigure # PyNone) =>
        ~IsNotConfigured(call.outcome) /\ Len(call.sent) = 1

\* the request w is the one configure call a would have it be
UrlOf(w, a) ==
    \E b \in Prefixes(a.base_url) :
        StrippedOf(b, a.base_url) /\ w.url = b \o ApiPath \o w.slug
KeyOf(w, a) == w.headers = ("x-api-key" :> a.api_key)

(* C10 as stated: with configure and get_prompt interleaving in threads,    *)
(* every request sent carries a base_url and an api_key that were passed    *)
(* together to one configure call.                                          *)
C10_PairFromOneConfigure ==
    \A w \in wire : \E a \in started : UrlOf(w, a) /\ KeyOf(w, a)

(* C10 amended: every request sent carries the base_url, without its        *)
(* trailing slashes, of some configure call and the api_key of some         *)
(* configure call, and the two calls need not be the same one.              *)
C10_EachFromSomeConfigure ==
    \A w \in wire : (\E a \in started : UrlOf(w, a)) /\ (\E a \in started : KeyOf(w, a))

C10_Witness ==
    \E w \in wire :
        /\ \E a \in started : UrlOf(w, a)
        /\ \E a \in started : KeyOf(w, a)
        /\ ~ \E a \in started : UrlOf(w, a) /\ KeyOf(w, a)

====
